---- MODULE Spec2Model ----
(***************************************************************************)
(* A model of django-dockit's schema core:                                 *)
(*   - dockit/schema/schema.py  (Options, SchemaBase, Schema, DocumentBase, *)
(*                               Document)                                  *)
(*   - dockit/backends/base.py  (BaseDocumentStorage)                       *)
(*                                                                         *)
(* Three specifications share the variables:                               *)
(*   SpecSchema : one Schema instance, its two representations             *)
(*   SpecDoc    : one Document instance and its save/delete lifecycle      *)
(*   SpecTypes  : type construction (SchemaBase.__new__ / DocumentBase)    *)
(***************************************************************************)
EXTENDS Integers, Sequences, FiniteSets, TLC

(***************************************************************************)
(* Python values.  Every scalar is a string so that any two compare:       *)
(*   "None"    None                                                        *)
(*   "i:k"     the int k          "s:k"   the str "k"                      *)
(*   "d:k"     a date object      "iso:k" its ISO string                   *)
(*   "id:k"    a document id (id:0 is the int 0, which is falsy)           *)
(*   "x:k"     a free-form primitive, "g:x:k" its generic conversion       *)
(***************************************************************************)
None == "None"

\* dict helpers: a dict is a function whose DOMAIN is its key set
EmptyDict == [k \in {} |-> None]

Get(d, k) == IF k \in DOMAIN d THEN d[k] ELSE None

Put(d, k, v) == [x \in DOMAIN d \cup {k} |-> IF x = k THEN v ELSE d[x]]

Pop(d, k) == [x \in DOMAIN d \ {k} |-> d[x]]

\* bool(v) of Python, on the values of the model
Truthy(v) == v \notin {None, "id:0", "i:0"}

(***************************************************************************)
(* The schema type of the instance: _meta.fields of a declared type with   *)
(* an integer field and a date field, and the descriptors' contract.       *)
(***************************************************************************)
FieldNames == {"age", "when"}

\* descriptor.is_instance(v)
FieldIsInstance(f, v) ==
    IF f = "age" THEN v \in {"i:0", "i:1"} ELSE v \in {"d:1", "d:9"}

\* descriptor.to_python(v, parent): the typed value of a primitive
FieldToPython(f, v) ==
    IF f = "age"
    THEN CASE v = None  -> "i:0"
           [] v = "s:0" -> "i:0"
           [] v = "s:1" -> "i:1"
           [] OTHER     -> v
    ELSE CASE v = "iso:1" -> "d:1"
           [] v = "iso:9" -> "d:9"
           [] OTHER       -> v

\* descriptor.to_primitive(v) raises for a value it cannot serialize
FieldToPrimitiveRaises(f, v) == f = "when" /\ v = "d:9"

\* descriptor.to_primitive(v): the primitive of a typed value
FieldToPrimitive(f, v) ==
    IF f = "age"
    THEN v
    ELSE CASE v = "d:1" -> "iso:1"
           [] OTHER     -> v

\* serializer.PRIMITIVE_PROCESSOR.to_python(v): the generic conversion
GenericToPython(v) == IF v = "x:0" THEN "g:x:0" ELSE v


(***************************************************************************)
(* Bounds and input sets                                                   *)
(***************************************************************************)
\* lazy conversions of one field that are counted before reads are cut off
MaxConv == 2

\* indexers that may be registered on the document's manager
MaxIndexers == 2

\* types application code declares after the module's own Schema and Document
MaxTypes == 2

\* types declared with fields, one on another, after the module's own
MaxFieldTypes == 3

\* the values application code assigns to a declared field
RawVals(f) == IF f = "age" THEN {"s:1", "i:0"} ELSE {"iso:1", "d:9"}

\* the non-declared keys application code uses by item access
FreeKeys == {"extra"}

FreeVals == {"x:0"}

\* backend.get_id_field_name()
IdField == "_id"

\* the primitive mappings handed to Schema.to_python
PrimMaps ==
    { EmptyDict,
      [k \in {"age"} |-> "s:1"],
      [k \in {"age", "when"} |-> IF k = "age" THEN "i:1" ELSE "iso:1"],
      [k \in {"when", "extra"} |-> IF k = "when" THEN "iso:9" ELSE "x:0"],
      [k \in {"_id", "age"} |-> IF k = "_id" THEN "id:0" ELSE "s:0"],
      [k \in {"_id"} |-> "id:7"] }

\* val of to_python(val, parent): None, or a mapping
ToPythonInputs ==
    {[null |-> TRUE, map |-> EmptyDict]}
        \cup {[null |-> FALSE, map |-> m] : m \in PrimMaps}

Parents == {None, "root"}

(***************************************************************************)
(* State                                                                   *)
(***************************************************************************)
VARIABLES
    primitiveData,  \* Schema._primitive_data
    typedData,      \* Schema._python_data
    parent,         \* Schema._parent
    lastOp,         \* the call the application made last: <<name, key>>
    ret,            \* what that call returned (None when it returns nothing)
    raised,         \* the error that call raised, "" when it returned
    lazyCount,      \* per field: lazy to_python calls since its last write
    lazyArg,        \* per field: the primitive handed to the last lazy call
    written,        \* per field: the value last assigned to it since the
                    \* instance was built, NoWrite when there is none
    source,         \* the to_python input the instance was built from, while
                    \* nothing but to_primitive has been called since;
                    \* NoSource otherwise
    pc,             \* Document.save / delete: the statement to run next
    created,        \* local variable created of Document.save
    idAtStart,      \* what get_id() gave when the running (or last) save
                    \* began; NoArg outside a save
    trace,          \* the calls the running (or last) save/delete has made
    idx,            \* position of the indexer loop
    indexes,        \* Manager.get_indexes(), in registration order
    stored,         \* what the backend holds for the document
    types,          \* the types constructed so far, a type's id its position
    catalog,        \* common.register_schema's table: pairs <<key, type id>>
    prepared,       \* the types class_prepared has announced, in order
    backendDocs,    \* the types handed to backend.register_document, in order
    nextCounter,    \* creation_counter of the next field descriptor
    decl,           \* the last declaration: what was declared, what was
                    \* built and how it ended
    indexers,       \* the _indexers dicts, by the class that owns each
    regBy,          \* per storage class and name: the indexer last
                    \* registered through that class, KeyError when none
    regOp           \* the last register_indexer / get_indexer call

schemaVars == <<primitiveData, typedData, parent>>

histVars == <<lastOp, ret, raised, lazyCount, lazyArg, written, source>>

docVars == <<pc, created, idAtStart, trace, idx, indexes, stored>>

typeVars == <<types, catalog, prepared, backendDocs, nextCounter, decl>>

backendVars == <<indexers, regBy, regOp>>

NoWrite == "<no write>"

NoArg == "<no call>"

\* the keyword arguments application code constructs an instance with
KwargSets == {EmptyDict, [f \in {"age"} |-> "s:1"]}

NoSource == [given |-> FALSE, null |-> FALSE, map |-> EmptyDict]

NoStore == [present |-> FALSE, coll |-> "", data |-> EmptyDict]

(***************************************************************************)
(* Schema: the instance and its two representations                        *)
(***************************************************************************)
\* mutant: the value is stored as given
CoerceRaw(f, v) == v

\* __setattr__: the value stored for v
Coerce(f, v) == IF FieldIsInstance(f, v) THEN v ELSE FieldToPython(f, v)

\* mutant: assigning to a declared field removes its entry
SetattrTypedRemoves(typed, f, v) == Pop(typed, f)

\* __setattr__: _python_data after assigning declared field f
SetattrTyped(typed, f, v) == Put(typed, f, Coerce(f, v))

\* Schema.keys()
Keys(prim) == DOMAIN prim \cup FieldNames

\* Schema.__init__(**kwargs): the instance's attributes after the keyword
\* loop: _primitive_data = val, _parent = par and the field keywords kw,
\* each one assigned through __setattr__
SchemaInit(val, par, kw) ==
    [prim   |-> val,
     typed  |-> [f \in DOMAIN kw |-> SetattrTyped(EmptyDict, f, kw[f])[f]],
     parent |-> par]

\* mutant: to_python converts every declared field of val at once
SchemaToPythonEager(in, par) ==
    [prim   |-> IF in.null THEN EmptyDict ELSE in.map,
     typed  |-> [f \in DOMAIN in.map \cap FieldNames |-> FieldToPython(f, in.map[f])],
     parent |-> par]

\* Schema.to_python(val, parent)
SchemaToPython(in, par) ==
    SchemaInit(IF in.null THEN EmptyDict ELSE in.map, par, EmptyDict)

\* mutant: every read converts, the cache is never consulted
NeedsConversionAlways(typed, f) == TRUE

\* __getattribute__: whether the read must convert
NeedsConversion(typed, f) == f \notin DOMAIN typed

\* __getattribute__: _python_data after reading declared field f
GetattrTyped(prim, typed, f) ==
    IF NeedsConversion(typed, f)
    THEN Put(typed, f, FieldToPython(f, Get(prim, f)))
    ELSE typed

\* Schema.to_primitive: the entry written for key k of _python_data
PrimitiveEntry(typed, k) ==
    IF k \in FieldNames THEN FieldToPrimitive(k, typed[k]) ELSE typed[k]

\* Schema.to_primitive: _primitive_data after the loop has run over the
\* keys S of _python_data
ToPrimitiveData(prim, typed, S) ==
    [k \in DOMAIN prim \cup S |->
        IF k \in S THEN PrimitiveEntry(typed, k) ELSE prim[k]]

\* Schema.to_primitive: the keys whose descriptor raises
RaisingKeys(typed) ==
    {k \in DOMAIN typed \cap FieldNames : FieldToPrimitiveRaises(k, typed[k])}


\* what every call on an idle instance leaves of the lifecycle's variables
NoLifecycle ==
    /\ pc = "idle"
    /\ trace' = <<>>
    /\ idAtStart' = NoArg
    /\ UNCHANGED <<pc, created, idx, indexes, stored, typeVars, backendVars>>

\* getattr(self, f) on a declared field, reached as op ("getattr" or
\* "getitem")
Getattr(op, f) ==
    /\ NoLifecycle
    /\ NeedsConversion(typedData, f) => lazyCount[f] < MaxConv
    /\ typedData' = GetattrTyped(primitiveData, typedData, f)
    /\ ret' = typedData'[f]
    /\ lazyCount' = IF NeedsConversion(typedData, f)
                    THEN [lazyCount EXCEPT ![f] = @ + 1]
                    ELSE lazyCount
    /\ lazyArg' = IF NeedsConversion(typedData, f)
                  THEN [lazyArg EXCEPT ![f] = Get(primitiveData, f)]
                  ELSE lazyArg
    /\ lastOp' = <<op, f>>
    /\ raised' = ""
    /\ source' = NoSource
    /\ UNCHANGED <<primitiveData, parent, written>>

\* setattr(self, f, v) on a declared field, reached as op
Setattr(op, f, v) ==
    /\ NoLifecycle
    /\ typedData' = SetattrTyped(typedData, f, v)
    /\ written' = [written EXCEPT ![f] = v]
    /\ lazyCount' = [lazyCount EXCEPT ![f] = 0]
    /\ lazyArg' = [lazyArg EXCEPT ![f] = NoArg]
    /\ lastOp' = <<op, f>>
    /\ ret' = None
    /\ raised' = ""
    /\ source' = NoSource
    /\ UNCHANGED <<primitiveData, parent>>

\* Schema.__getattribute__(name) for a declared field
ReadField(f) == Getattr("getattr", f)

\* Schema.__setattr__(name, val) for a declared field
WriteField(f, v) == Setattr("setattr", f, v)

\* Schema.__getitem__: _python_data after the lookup of a non-declared key
GetitemTyped(prim, typed, k) ==
    IF k \in DOMAIN prim /\ k \notin DOMAIN typed
    THEN Put(typed, k, GenericToPython(prim[k]))
    ELSE typed

\* Schema.__getitem__(key)
GetItem(k) ==
    IF k \in FieldNames
    THEN Getattr("getitem", k)
    ELSE /\ NoLifecycle
         /\ typedData' = GetitemTyped(primitiveData, typedData, k)
         /\ ret' = Get(typedData', k)
         /\ raised' = IF k \in DOMAIN typedData' THEN "" ELSE "KeyError"
         /\ lastOp' = <<"getitem", k>>
         /\ source' = NoSource
         /\ UNCHANGED <<primitiveData, parent, lazyCount, lazyArg, written>>

\* Schema.__setitem__(key, value)
SetItem(k, v) ==
    IF k \in FieldNames
    THEN Setattr("setitem", k, v)
    ELSE /\ NoLifecycle
         /\ typedData' = Put(typedData, k, v)
         /\ ret' = None
         /\ raised' = ""
         /\ lastOp' = <<"setitem", k>>
         /\ source' = NoSource
         /\ UNCHANGED <<primitiveData, parent, lazyCount, lazyArg, written>>

\* Schema.__delitem__(key)
DelItem(k) ==
    IF k \in FieldNames
    THEN Setattr("delitem", k, None)
    ELSE /\ NoLifecycle
         /\ typedData' = Pop(typedData, k)
         /\ primitiveData' = Pop(primitiveData, k)
         /\ ret' = None
         /\ raised' = ""
         /\ lastOp' = <<"delitem", k>>
         /\ source' = NoSource
         /\ UNCHANGED <<parent, lazyCount, lazyArg, written>>

\* Schema.to_primitive(instance), every descriptor converting
ToPrimitive ==
    /\ NoLifecycle
    /\ RaisingKeys(typedData) = {}
    /\ primitiveData' = ToPrimitiveData(primitiveData, typedData, DOMAIN typedData)
    /\ ret' = None
    /\ raised' = ""
    /\ lastOp' = <<"to_primitive", "">>
    /\ UNCHANGED <<typedData, parent, lazyCount, lazyArg, written, source>>

\* Schema.to_primitive(instance), a descriptor raising after the loop has
\* run over the keys S (a dict's iteration order is not fixed)
ToPrimitiveRaise(S) ==
    /\ NoLifecycle
    /\ RaisingKeys(typedData) # {}
    /\ S \subseteq DOMAIN typedData \ RaisingKeys(typedData)
    /\ primitiveData' = ToPrimitiveData(primitiveData, typedData, S)
    /\ ret' = None
    /\ raised' = "FieldError"
    /\ lastOp' = <<"to_primitive", "">>
    /\ source' = NoSource
    /\ UNCHANGED <<typedData, parent, lazyCount, lazyArg, written>>

\* the instance the model follows becomes the one __init__ returns
NewInstance(inst, kw, src, op) ==
    /\ NoLifecycle
    /\ primitiveData' = inst.prim
    /\ typedData' = inst.typed
    /\ parent' = inst.parent
    /\ written' = [f \in FieldNames |-> IF f \in DOMAIN kw THEN kw[f] ELSE NoWrite]
    /\ lazyCount' = [f \in FieldNames |-> 0]
    /\ lazyArg' = [f \in FieldNames |-> NoArg]
    /\ source' = src
    /\ ret' = None
    /\ raised' = ""
    /\ lastOp' = <<op, "">>

\* Schema.to_python(val, parent)
ToPython(in, par) ==
    NewInstance(SchemaToPython(in, par), EmptyDict,
                [given |-> TRUE, null |-> in.null, map |-> in.map], "to_python")

\* Schema(**kwargs)
Construct(kw) ==
    NewInstance(SchemaInit(EmptyDict, None, kw), kw, NoSource, "__init__")

(***************************************************************************)
(* Document: identity and the save / delete lifecycle                      *)
(***************************************************************************)
\* Options.collection of the document's type
Collection == "app.person"

\* the id a pre-save or pre-delete receiver writes into _primitive_data
HandlerId == "id:9"

\* the id the backend writes into the data it is given
BackendId == "id:7"

\* what a receiver of a signal does: nothing, set the id, or raise
HandlerEffects == {"none", "set_id", "raise"}

\* what the backend's save does: store, store and assign the id, or raise
SaveOutcomes == {"ok", "assign_id", "raise"}

\* a call made on a collaborator (signal, backend or indexer)
Ev(call, ixr, coll, data, id, cr) ==
    [call |-> call, indexer |-> ixr, coll |-> coll, data |-> data,
     id |-> id, created |-> cr]

Signal(name) == Ev(name, 0, "", EmptyDict, None, FALSE)

\* BaseDocumentStorage.get_id(data)
GetId(data) == Get(data, IdField)

\* mutant: the id is the one of the document last stored
PkOfStored(prim) == IF stored.present THEN GetId(stored.data) ELSE GetId(prim)

\* Document.get_id / pk
Pk(prim) == GetId(prim)

\* Document.save: created = not self.pk
Created(prim) == ~Truthy(Pk(prim))

\* Manager.get_indexes().itervalues(): the indexers in registration order
GetIndexes == indexes

\* mutant: the loop runs over the indexers last registered first
NextIndexerReversed(ixs, i) == ixs[Len(ixs) + 1 - i]

\* the indexer the i-th turn of the loop over get_indexes() notifies
NextIndexer(ixs, i) == ixs[i]

\* mutant: the backend's error is caught and the method goes on
AfterBackendSwallows(outcome, next) == next

\* where save/delete goes after the backend call: an error leaves the method
AfterBackend(outcome, next) == IF outcome = "raise" THEN "idle" ELSE next

\* mutant: an indexer's error does not end the loop
AfterIndexerContinues(ok, here) == here

\* where the indexer loop goes after a notification: an error leaves the
\* method, otherwise the loop takes its next turn
AfterIndexer(ok, here) == IF ok THEN here ELSE "idle"

\* what a receiver leaves of _primitive_data
HandlerData(prim, h) == IF h = "set_id" THEN Put(prim, IdField, HandlerId) ELSE prim

\* the variables of the application's view when a lifecycle call begins
BeginCall(op) ==
    /\ pc = "idle"
    /\ trace' = <<>>
    /\ lastOp' = <<op, "">>
    /\ ret' = None
    /\ raised' = ""
    /\ source' = NoSource

\* Manager: an indexer is registered on the document's manager
RegisterIndex(n) ==
    /\ pc = "idle"
    /\ Len(indexes) < MaxIndexers
    /\ \A i \in 1..Len(indexes) : indexes[i] # n
    /\ indexes' = Append(indexes, n)
    /\ trace' = <<>>
    /\ idAtStart' = NoArg
    /\ lastOp' = <<"register_index", "">>
    /\ ret' = None
    /\ raised' = ""
    /\ UNCHANGED <<schemaVars, lazyCount, lazyArg, written, source, pc, created,
                   idx, stored,
                   typeVars, backendVars>>

\* Document.save, line 320: created = not self.pk
SaveStart ==
    /\ BeginCall("save")
    /\ created' = Created(primitiveData)
    /\ idAtStart' = Pk(primitiveData)
    /\ pc' = "pre_save"
    /\ UNCHANGED <<schemaVars, lazyCount, lazyArg, written, idx, indexes, stored,
                   typeVars, backendVars>>

\* Document.save, line 321: pre_save.send
PreSave(h) ==
    /\ pc = "pre_save"
    /\ trace' = Append(trace, Signal("pre_save"))
    /\ primitiveData' = HandlerData(primitiveData, h)
    /\ pc' = IF h = "raise" THEN "idle" ELSE "materialize"
    /\ raised' = IF h = "raise" THEN "SignalError" ELSE raised
    /\ UNCHANGED <<typedData, parent, lastOp, ret, lazyCount, lazyArg, written,
                   source, created, idAtStart, idx, indexes, stored,
                   typeVars, backendVars>>

\* Document.save, line 323: data = type(self).to_primitive(self)
SaveMaterialize ==
    /\ pc = "materialize"
    /\ RaisingKeys(typedData) = {}
    /\ primitiveData' = ToPrimitiveData(primitiveData, typedData, DOMAIN typedData)
    /\ pc' = "backend_save"
    /\ UNCHANGED <<typedData, parent, lastOp, ret, raised, lazyCount, lazyArg,
                   written, source, created, idAtStart, trace, idx, indexes, stored,
                   typeVars, backendVars>>

\* mutant: save goes on after a descriptor raised
AfterMaterializeSwallows(raising, next) == next

\* Schema.to_primitive, lines 209-211, and Document.save, line 323: the
\* error of a descriptor is raised again and nothing in save catches it
AfterMaterialize(raising, next) == IF raising # {} THEN "idle" ELSE next

\* Document.save, line 323, a descriptor raising
SaveMaterializeRaise(S) ==
    /\ pc = "materialize"
    /\ RaisingKeys(typedData) # {}
    /\ S \subseteq DOMAIN typedData \ RaisingKeys(typedData)
    /\ primitiveData' = ToPrimitiveData(primitiveData, typedData, S)
    /\ pc' = AfterMaterialize(RaisingKeys(typedData), "backend_save")
    /\ raised' = "FieldError"
    /\ UNCHANGED <<typedData, parent, lastOp, ret, lazyCount, lazyArg, written,
                   source, created, idAtStart, trace, idx, indexes, stored,
                   typeVars, backendVars>>

\* the data after the backend's save: the backend may write the id into it
BackendData(prim, outcome) ==
    IF outcome = "assign_id" /\ GetId(prim) = None
    THEN Put(prim, IdField, BackendId)
    ELSE prim

\* Document.save, line 324: backend.save(self._meta.collection, data)
BackendSave(outcome) ==
    /\ pc = "backend_save"
    /\ trace' = Append(trace, Ev("backend.save", 0, Collection, primitiveData, None, FALSE))
    /\ primitiveData' = BackendData(primitiveData, outcome)
    /\ stored' = IF outcome = "raise"
                 THEN stored
                 ELSE [present |-> TRUE, coll |-> Collection, data |-> primitiveData']
    /\ pc' = AfterBackend(outcome, "index_save")
    /\ raised' = IF outcome = "raise" THEN "BackendError" ELSE raised
    /\ idx' = 1
    /\ UNCHANGED <<typedData, parent, lastOp, ret, lazyCount, lazyArg, written,
                   source, created, idAtStart, indexes,
                   typeVars, backendVars>>

\* Document.save, lines 325-326: value.on_document_save(self)
IndexSave(ok) ==
    /\ pc = "index_save"
    /\ idx <= Len(GetIndexes)
    /\ trace' = Append(trace, Ev("on_document_save", NextIndexer(GetIndexes, idx),
                                 "", EmptyDict, None, FALSE))
    /\ idx' = idx + 1
    /\ pc' = AfterIndexer(ok, "index_save")
    /\ raised' = IF ok THEN raised ELSE "IndexerError"
    /\ UNCHANGED <<schemaVars, lastOp, ret, lazyCount, lazyArg, written, source,
                   created, idAtStart, indexes, stored,
                   typeVars, backendVars>>

\* Document.save, line 327: post_save.send(..., created=created)
PostSave(h) ==
    /\ pc = "index_save"
    /\ idx > Len(GetIndexes)
    /\ trace' = Append(trace, Ev("post_save", 0, "", EmptyDict, None, created))
    /\ primitiveData' = HandlerData(primitiveData, h)
    /\ pc' = "idle"
    /\ raised' = IF h = "raise" THEN "SignalError" ELSE raised
    /\ UNCHANGED <<typedData, parent, lastOp, ret, lazyCount, lazyArg, written,
                   source, created, idAtStart, idx, indexes, stored,
                   typeVars, backendVars>>

\* Document.delete, entry
DeleteStart ==
    /\ BeginCall("delete")
    /\ pc' = "pre_delete"
    /\ created' = FALSE
    /\ idAtStart' = NoArg
    /\ UNCHANGED <<schemaVars, lazyCount, lazyArg, written, idx, indexes, stored,
                   typeVars, backendVars>>

\* Document.delete, line 330: pre_delete.send
PreDelete(h) ==
    /\ pc = "pre_delete"
    /\ trace' = Append(trace, Signal("pre_delete"))
    /\ primitiveData' = HandlerData(primitiveData, h)
    /\ pc' = IF h = "raise" THEN "idle" ELSE "backend_delete"
    /\ raised' = IF h = "raise" THEN "SignalError" ELSE raised
    /\ UNCHANGED <<typedData, parent, lastOp, ret, lazyCount, lazyArg, written,
                   source, created, idAtStart, idx, indexes, stored,
                   typeVars, backendVars>>

\* mutant: the id is looked up under a key the backend does not use
DeleteIdWrongField(prim) == Get(prim, "id")

\* Document.delete, line 332: the id handed to the backend
DeleteId(prim) == GetId(prim)

\* Document.delete, line 332: backend.delete(self._meta.collection, self.get_id())
BackendDelete(ok) ==
    /\ pc = "backend_delete"
    /\ trace' = Append(trace, Ev("backend.delete", 0, Collection, EmptyDict,
                                 DeleteId(primitiveData), FALSE))
    /\ stored' = IF ok THEN NoStore ELSE stored
    /\ pc' = AfterBackend(IF ok THEN "ok" ELSE "raise", "index_delete")
    /\ raised' = IF ok THEN raised ELSE "BackendError"
    /\ idx' = 1
    /\ UNCHANGED <<schemaVars, lastOp, ret, lazyCount, lazyArg, written, source,
                   created, idAtStart, indexes,
                   typeVars, backendVars>>

\* Document.delete, lines 333-334: value.on_document_delete(self)
IndexDelete(ok) ==
    /\ pc = "index_delete"
    /\ idx <= Len(GetIndexes)
    /\ trace' = Append(trace, Ev("on_document_delete", NextIndexer(GetIndexes, idx),
                                 "", EmptyDict, None, FALSE))
    /\ idx' = idx + 1
    /\ pc' = AfterIndexer(ok, "index_delete")
    /\ raised' = IF ok THEN raised ELSE "IndexerError"
    /\ UNCHANGED <<schemaVars, lastOp, ret, lazyCount, lazyArg, written, source,
                   created, idAtStart, indexes, stored,
                   typeVars, backendVars>>

\* Document.delete, line 335: post_delete.send
PostDelete(h) ==
    /\ pc = "index_delete"
    /\ idx > Len(GetIndexes)
    /\ trace' = Append(trace, Signal("post_delete"))
    /\ primitiveData' = HandlerData(primitiveData, h)
    /\ pc' = "idle"
    /\ raised' = IF h = "raise" THEN "SignalError" ELSE raised
    /\ UNCHANGED <<typedData, parent, lastOp, ret, lazyCount, lazyArg, written,
                   source, created, idAtStart, idx, indexes, stored,
                   typeVars, backendVars>>

(***************************************************************************)
(* Type construction: Options, SchemaBase.__new__, DocumentBase.__new__    *)
(***************************************************************************)
\* Options.DEFAULT_NAMES
DEFAULT_NAMES ==
    {"verbose_name", "db_table", "ordering", "schema_key", "app_label",
     "collection", "virtual", "proxy"}

\* str.lower() of a type name
Lower(name) ==
    CASE name = "Person"   -> "person"
      [] name = "Author"   -> "author"
      [] name = "Schema"   -> "schema"
      [] name = "Document" -> "document"

\* django's get_verbose_name(object_name), on one-word names
VerboseName(name) == Lower(name)

\* document_module.__name__.split('.')[-2]
ModuleAppLabel(module) ==
    CASE module = "app.models"           -> "app"
      [] module = "dockit.schema.schema" -> "schema"

\* a declaration without a class Meta
NoMeta == [given |-> FALSE, attrs |-> EmptyDict]

Meta(attrs) == [given |-> TRUE, attrs |-> attrs]

\* getattr(meta, key, default)
MetaGet(meta, key, default) ==
    IF meta.given /\ key \in DOMAIN meta.attrs THEN meta.attrs[key] ELSE default

\* Options.__init__(meta, app_label): the attributes of a new Options
OptionsInit(appLabel) ==
    [a \in {"module_name", "verbose_name", "verbose_name_plural", "object_name",
            "app_label", "collection", "schema_key", "virtual", "proxy",
            "abstract", "ordering"} |->
        CASE a = "app_label"                       -> appLabel
          [] a \in {"virtual", "proxy", "abstract"} -> FALSE
          [] a = "ordering"                        -> "['_id']"
          [] OTHER                                 -> None]

\* Options.default_schema_key
DefaultSchemaKey(opts) == opts["app_label"] \o "." \o opts["module_name"]

\* Options.contribute_to_class, lines 42-46: the defaults
OptionDefaults(opts, name) ==
    LET named == [opts EXCEPT !["object_name"] = name,
                              !["module_name"] = Lower(name),
                              !["verbose_name"] = VerboseName(name)]
    IN  [named EXCEPT !["collection"] = DefaultSchemaKey(named),
                      !["schema_key"] = DefaultSchemaKey(named)]

\* Options.contribute_to_class, lines 57-65: the values of class Meta
OptionOverrides(opts, attrs) ==
    LET set == [a \in DOMAIN opts \cup (DOMAIN attrs \cap DEFAULT_NAMES) |->
                   IF a \in DOMAIN attrs \cap DEFAULT_NAMES THEN attrs[a] ELSE opts[a]]
    IN  [set EXCEPT !["verbose_name_plural"] =
            IF "verbose_name_plural" \in DOMAIN attrs
            THEN attrs["verbose_name_plural"]
            ELSE set["verbose_name"] \o "s"]

\* name.startswith('_'), on the names a class Meta of the declarations has
IsPrivate(name) == name \in {"_cache"}

\* mutant: no attribute of class Meta is left over
InvalidAttrsNone(attrs) == {}

\* Options.contribute_to_class, lines 50-69: the attributes left over once
\* the private ones are deleted and the DEFAULT_NAMES and
\* verbose_name_plural are popped
InvalidAttrs(attrs) ==
    {a \in DOMAIN attrs : ~IsPrivate(a)} \ (DEFAULT_NAMES \cup {"verbose_name_plural"})

\* Options.contribute_to_class(cls, name)
ContributeToClass(opts, name, meta) ==
    LET defaults == OptionDefaults(opts, name) IN
    IF meta.given
    THEN [ok   |-> InvalidAttrs(meta.attrs) = {},
          opts |-> OptionOverrides(defaults, meta.attrs)]
    ELSE [ok   |-> TRUE,
          opts |-> [defaults EXCEPT !["verbose_name_plural"] =
                                        defaults["verbose_name"] \o "s"]]

\* mutant: a proxy takes nothing from its ancestor
ProxyMetaOwn(meta, parentOpts) == meta

\* SchemaBase.__new__, lines 146-149: a proxy's Meta takes every recognized
\* option it does not set from the ancestor's Options
ProxyMeta(meta, parentOpts) ==
    Meta([k \in DOMAIN meta.attrs \cup (DEFAULT_NAMES \cap DOMAIN parentOpts) |->
             IF k \in DOMAIN meta.attrs THEN meta.attrs[k] ELSE parentOpts[k]])

\* SchemaBase.__new__, lines 151-155
AppLabel(meta, module) ==
    IF MetaGet(meta, "app_label", None) = None
    THEN ModuleAppLabel(module)
    ELSE meta.attrs["app_label"]

\* _meta.fields as a dict: name -> descriptor (a descriptor is known by its
\* creation_counter)
FieldsDict(fields) ==
    [n \in {fields[i].name : i \in 1..Len(fields)} |->
        (CHOOSE i \in 1..Len(fields) : fields[i].name = n)]

FieldCounter(fields, n) == fields[FieldsDict(fields)[n]].counter

\* the class body's field attributes: the i-th declared name holds the
\* descriptor created i-th
DeclaredAttrs(names, c0) ==
    [n \in {names[i] : i \in 1..Len(names)} |->
        c0 + (CHOOSE i \in 1..Len(names) : names[i] = n) - 1]

\* mutant: a base's field is taken only under a name attrs does not hold
RECURSIVE UpdateFromBasesSetDefault(_, _, _, _)
UpdateFromBasesSetDefault(attrs, tps, bases, i) ==
    IF i > Len(bases)
    THEN attrs
    ELSE LET bf == tps[bases[i]].fields
             names == {bf[j].name : j \in 1..Len(bf)}
         IN  UpdateFromBasesSetDefault(
                 [n \in DOMAIN attrs \cup names |->
                     IF n \in DOMAIN attrs THEN attrs[n] ELSE FieldCounter(bf, n)],
                 tps, bases, i + 1)

\* SchemaBase.__new__, lines 157-159: attrs.update(base._meta.fields) for
\* the bases from the i-th on
RECURSIVE UpdateFromBases(_, _, _, _)
UpdateFromBases(attrs, tps, bases, i) ==
    IF i > Len(bases)
    THEN attrs
    ELSE LET bf == tps[bases[i]].fields
             names == {bf[j].name : j \in 1..Len(bf)}
         IN  UpdateFromBases([n \in DOMAIN attrs \cup names |->
                                 IF n \in names THEN FieldCounter(bf, n) ELSE attrs[n]],
                             tps, bases, i + 1)

\* mutant: the fields in descending order of creation_counter
RECURSIVE SortedFieldsReversed(_)
SortedFieldsReversed(attrs) ==
    IF DOMAIN attrs = {}
    THEN <<>>
    ELSE LET n == CHOOSE n \in DOMAIN attrs : \A m \in DOMAIN attrs : attrs[n] >= attrs[m]
         IN  <<[name |-> n, counter |-> attrs[n]]>> \o SortedFieldsReversed(Pop(attrs, n))

\* SchemaBase.__new__, lines 163-167: the fields sorted by creation_counter
\* and bound to the class in that order
RECURSIVE SortedFields(_)
SortedFields(attrs) ==
    IF DOMAIN attrs = {}
    THEN <<>>
    ELSE LET n == CHOOSE n \in DOMAIN attrs : \A m \in DOMAIN attrs : attrs[n] <= attrs[m]
         IN  <<[name |-> n, counter |-> attrs[n]]>> \o SortedFields(Pop(attrs, n))

\* common.register_schema(key, cls): whether it raises
RegisterSchemaRaises(cat, key, t) == \E p \in cat : p[1] = key /\ p[2] # t

\* common.register_schema(key, cls): the table after it
RegisterSchema(cat, key, t) == cat \cup {<<key, t>>}

\* mutant: no type is registered
ShouldRegisterNever(opts) == FALSE

\* SchemaBase.__new__, line 172
ShouldRegister(opts) == ~opts["virtual"]

\* mutant: a proxy document is handed to the backend as well
ShouldRegisterDocumentProxyToo(opts) == ~opts["virtual"]

\* DocumentBase.__new__, line 305
ShouldRegisterDocument(opts) == ~opts["virtual"] /\ ~opts["proxy"]

\* a declaration: class <name>(<bases>) with a class Meta and field
\* attributes, built by DocumentBase (doc) or by SchemaBase into the type
\* object <type>
NoDecl ==
    [op |-> "none", type |-> 0, name |-> "", doc |-> FALSE, bases |-> <<>>,
     meta |-> NoMeta, invalid |-> {},
     declared |-> <<>>, built |-> FALSE, opts |-> OptionsInit(None),
     fields |-> <<>>, result |-> "", calls |-> <<>>]

\* SchemaBase.__new__(cls, name, bases, attrs) followed, for a document, by
\* the rest of DocumentBase.__new__: what it builds, the calls it makes and
\* how it ends, for the type that would get the id t
BuildType(d, bases, tps, cat, c0, t) ==
    LET isProxy  == MetaGet(d.meta, "proxy", FALSE)
        orphan   == isProxy /\ bases = <<>>
        meta     == IF isProxy /\ ~orphan
                    THEN ProxyMeta(d.meta, tps[bases[1]].opts)
                    ELSE d.meta
        appLabel == AppLabel(meta, "app.models")
        attrs    == UpdateFromBases(DeclaredAttrs(d.fields, c0), tps, bases, 1)
        made     == ContributeToClass(OptionsInit(appLabel), d.name, meta)
        opts     == made.opts
        fields   == SortedFields(attrs)
        taken    == ShouldRegister(opts) /\ RegisterSchemaRaises(cat, opts["schema_key"], t)
        base     == [NoDecl EXCEPT !.op = "declare", !.type = t,
                                   !.name = d.name, !.doc = d.doc,
                                   !.bases = bases, !.meta = d.meta,
                                   !.declared = d.fields]
    IN  IF orphan
        THEN [base EXCEPT !.result = "ValueError"]
        ELSE IF ~made.ok
        THEN [base EXCEPT !.result = "TypeError", !.invalid = InvalidAttrs(meta.attrs)]
        ELSE IF taken
        THEN [base EXCEPT !.built = TRUE, !.opts = opts, !.fields = fields,
                          !.result = "RegistrationError",
                          !.calls = <<"register_schema">>]
        ELSE [base EXCEPT !.built = TRUE, !.opts = opts, !.fields = fields,
                          !.result = "ok",
                          !.calls =
                              (IF ShouldRegister(opts) THEN <<"register_schema">> ELSE <<>>)
                              \o <<"class_prepared">>
                              \o (IF d.doc /\ ShouldRegisterDocument(opts)
                                  THEN <<"register_document">> ELSE <<>>)]

\* the type object a declaration that ended well leaves
TypeOf(b) ==
    [name |-> b.name, doc |-> b.doc, bases |-> b.bases, meta |-> b.meta,
     declared |-> b.declared, opts |-> b.opts, fields |-> b.fields]

\* dockit.schema.schema's own two types, built when the module is imported
RootSchema ==
    TypeOf([NoDecl EXCEPT
        !.name = "Schema",
        !.opts = ContributeToClass(OptionsInit(ModuleAppLabel("dockit.schema.schema")),
                                   "Schema", NoMeta).opts])

RootDocument ==
    TypeOf([NoDecl EXCEPT
        !.name = "Document", !.doc = TRUE, !.bases = <<1>>,
        !.opts = ContributeToClass(OptionsInit(ModuleAppLabel("dockit.schema.schema")),
                                   "Document", NoMeta).opts])

RootTypes == <<RootSchema, RootDocument>>

\* the class Meta blocks application code declares
MetaVirtual == Meta([k \in {"virtual"} |-> TRUE])

MetaProxy == Meta([k \in {"proxy"} |-> TRUE])

MetaProxyCollection ==
    Meta([k \in {"proxy", "collection"} |-> IF k = "proxy" THEN TRUE ELSE "people"])

MetaSchemaKey == Meta([k \in {"schema_key"} |-> "shared"])

MetaProxySchemaKey ==
    Meta([k \in {"proxy", "schema_key"} |-> IF k = "proxy" THEN TRUE ELSE "shared"])

MetaCollection == Meta([k \in {"collection"} |-> "people"])

MetaBogus == Meta([k \in {"bogus"} |-> "x"])

\* class <name>: with the class Meta m and the field attributes fs, in
\* class-body order
Declaration(doc, m, fs) ==
    [name |-> IF doc THEN "Author" ELSE "Person", doc |-> doc, meta |-> m, fields |-> fs]

\* the declarations application code makes: schemas named Person,
\* documents named Author
Declarations ==
    { Declaration(FALSE, NoMeta, <<"a", "b">>),
      Declaration(FALSE, NoMeta, <<"b", "c">>),
      Declaration(FALSE, MetaVirtual, <<"a", "b">>),
      Declaration(FALSE, MetaProxy, <<>>),
      Declaration(FALSE, MetaProxy, <<"b", "c">>),
      Declaration(FALSE, MetaProxyCollection, <<>>),
      Declaration(FALSE, MetaSchemaKey, <<"a", "b">>),
      Declaration(FALSE, MetaCollection, <<"a", "b">>),
      Declaration(FALSE, MetaBogus, <<"a", "b">>),
      Declaration(TRUE, NoMeta, <<>>),
      Declaration(TRUE, MetaVirtual, <<>>),
      Declaration(TRUE, MetaProxy, <<>>),
      Declaration(TRUE, MetaProxySchemaKey, <<>>) }

\* the bases of a declaration: none (object alone), the module's Schema or
\* Document, one declared type, or two of them
BaseChoices(tps, doc) ==
    LET user == 3..Len(tps) IN
    {<<>>, <<IF doc THEN 2 ELSE 1>>}
        \cup {<<i>> : i \in user}
        \cup {<<p[1], p[2]>> : p \in {q \in user \X user : q[1] # q[2]}}

\* the errors a declaration ends with
DeclarationErrors == {"ValueError", "TypeError", "RegistrationError"}

\* the modules declaring the types are still being imported: no error has
\* propagated out of a class statement (nothing in SchemaBase.__new__
\* catches one)
Importing == decl.result \notin DeclarationErrors

\* a class statement (or create_schema / create_document) runs, while fewer
\* than max types have been declared
DeclareWithin(d, bases, max) ==
    /\ Importing
    /\ Len(types) < Len(RootTypes) + max
    /\ \E t \in {Len(types) + 1} :
       \E b \in {BuildType(d, bases, types, catalog, nextCounter, t)} :
        /\ decl' = b
        /\ IF b.result = "ok"
           THEN /\ types' = Append(types, TypeOf(b))
                /\ nextCounter' = nextCounter + Len(d.fields)
                /\ catalog' = IF ShouldRegister(b.opts)
                              THEN RegisterSchema(catalog, b.opts["schema_key"], t)
                              ELSE catalog
                /\ prepared' = Append(prepared, t)
                /\ backendDocs' = IF d.doc /\ ShouldRegisterDocument(b.opts)
                                  THEN Append(backendDocs, t)
                                  ELSE backendDocs
           ELSE UNCHANGED <<types, nextCounter, catalog, prepared, backendDocs>>
        /\ UNCHANGED <<schemaVars, histVars, docVars, backendVars>>

Declare(d, bases) == DeclareWithin(d, bases, MaxTypes)

\* the declarations of a module whose types build on each other's fields:
\* virtual schemas with the fields a, b, c, with b, c and with d, and a
\* schema with d that is not virtual
FieldDeclarations ==
    { Declaration(FALSE, MetaVirtual, <<"a", "b", "c">>),
      Declaration(FALSE, MetaVirtual, <<"b", "c">>),
      Declaration(FALSE, MetaVirtual, <<"d">>),
      Declaration(FALSE, NoMeta, <<"d">>) }

\* a class statement of that module runs
DeclareFields(d, bases) == DeclareWithin(d, bases, MaxFieldTypes)

MetaBogusKeyed ==
    Meta([k \in {"bogus", "extra", "schema_key"} |->
             IF k = "schema_key" THEN "shared" ELSE "x"])

MetaPlural == Meta([k \in {"verbose_name_plural"} |-> "people"])

MetaPrivate == Meta([k \in {"_cache"} |-> "x"])

\* the declarations of a module whose class Meta blocks have attributes
\* outside DEFAULT_NAMES
MetaDeclarations ==
    { Declaration(FALSE, MetaBogus, <<"a", "b">>),
      Declaration(FALSE, MetaBogusKeyed, <<"a", "b">>),
      Declaration(TRUE, MetaBogus, <<>>),
      Declaration(FALSE, MetaPlural, <<"a", "b">>),
      Declaration(FALSE, MetaPrivate, <<"b", "c">>),
      Declaration(FALSE, MetaVirtual, <<"a", "b">>),
      Declaration(FALSE, MetaSchemaKey, <<"a", "b">>),
      Declaration(TRUE, NoMeta, <<>>) }

\* a class statement of that module runs
DeclareMeta(d, bases) == DeclareWithin(d, bases, MaxTypes)

\* common.register_schema is called again for a type under its schema key
ReRegister(t) ==
    \E key \in {types[t].opts["schema_key"]} :
    \E bad \in {RegisterSchemaRaises(catalog, key, t)} :
        /\ Importing
        /\ decl' = [NoDecl EXCEPT !.op = "register_schema", !.type = t,
                                  !.name = types[t].name,
                                  !.opts = types[t].opts, !.built = TRUE,
                                  !.result = IF bad THEN "RegistrationError" ELSE "ok",
                                  !.calls = <<"register_schema">>]
        /\ catalog' = IF bad THEN catalog ELSE RegisterSchema(catalog, key, t)
        /\ UNCHANGED <<types, nextCounter, prepared, backendDocs>>
        /\ UNCHANGED <<schemaVars, histVars, docVars, backendVars>>

(***************************************************************************)
(* BaseDocumentStorage: the named indexers                                 *)
(***************************************************************************)
\* the storage classes derived from BaseDocumentStorage: two whose class
\* body assigns no _indexers and one whose class body assigns its own dict
Backends == {"BackendA", "BackendB", "BackendOwn"}

OwnIndexers == {"BackendOwn"}

\* the names and the indexer classes application code registers
IndexerNames == {"equals", "date"}

IndexerTypes == {"T1", "T2"}

\* cls._indexers: the attribute is found on the class that assigns it,
\* BaseDocumentStorage (line 3) unless the subclass has its own
IndexersOwner(cls) == IF cls \in OwnIndexers THEN cls ELSE "BaseDocumentStorage"

\* BaseDocumentStorage.get_indexer(name) on cls
GetIndexerResult(ix, cls, name) ==
    IF name \in DOMAIN ix[IndexersOwner(cls)]
    THEN ix[IndexersOwner(cls)][name]
    ELSE "KeyError"

\* BaseDocumentStorage.register_indexer(name, index_cls) on cls
RegisterIndexerResult(ix, cls, name, T) ==
    [ix EXCEPT ![IndexersOwner(cls)] = Put(@, name, T)]

NoRegOp == [op |-> "none", cls |-> "", name |-> "", type |-> "", prev |-> "", result |-> ""]

RegisterIndexer(cls, name, T) ==
    /\ indexers' = RegisterIndexerResult(indexers, cls, name, T)
    /\ regBy' = [regBy EXCEPT ![cls][name] = T]
    /\ regOp' = [op |-> "register_indexer", cls |-> cls, name |-> name, type |-> T,
                 prev |-> GetIndexerResult(indexers, cls, name), result |-> None]
    /\ UNCHANGED <<schemaVars, histVars, docVars, typeVars>>

GetIndexer(cls, name) ==
    /\ regOp' = [op |-> "get_indexer", cls |-> cls, name |-> name, type |-> "",
                 prev |-> GetIndexerResult(indexers, cls, name),
                 result |-> GetIndexerResult(indexers, cls, name)]
    /\ UNCHANGED <<indexers, regBy>>
    /\ UNCHANGED <<schemaVars, histVars, docVars, typeVars>>

(***************************************************************************)
(* Specifications                                                          *)
(***************************************************************************)
vars == <<primitiveData, typedData, parent, lastOp, ret, raised, lazyCount,
          lazyArg, written, source, pc, created, idAtStart, trace, idx, indexes,
          stored, types, catalog, prepared, backendDocs, nextCounter, decl,
          indexers, regBy, regOp>>

\* a Schema() / Document() constructed without arguments, nothing saved,
\* no indexer registered
Init ==
    /\ primitiveData = EmptyDict
    /\ typedData = EmptyDict
    /\ parent = None
    /\ lastOp = <<"__init__", "">>
    /\ ret = None
    /\ raised = ""
    /\ lazyCount = [f \in FieldNames |-> 0]
    /\ lazyArg = [f \in FieldNames |-> NoArg]
    /\ written = [f \in FieldNames |-> NoWrite]
    /\ source = NoSource
    /\ pc = "idle"
    /\ created = FALSE
    /\ idAtStart = NoArg
    /\ trace = <<>>
    /\ idx = 0
    /\ indexes = <<>>
    /\ stored = NoStore
    /\ types = RootTypes
    /\ catalog = {<<RootTypes[i].opts["schema_key"], i>> : i \in 1..Len(RootTypes)}
    /\ prepared = <<1, 2>>
    /\ backendDocs = <<2>>
    /\ nextCounter = 1
    /\ decl = NoDecl
    /\ indexers = [o \in {"BaseDocumentStorage"} \cup OwnIndexers |-> EmptyDict]
    /\ regBy = [cls \in Backends |-> [n \in IndexerNames |-> "KeyError"]]
    /\ regOp = NoRegOp

NextSchema ==
    \/ \E f \in FieldNames : ReadField(f)
    \/ \E f \in FieldNames : \E v \in RawVals(f) : WriteField(f, v)
    \/ \E k \in FieldNames \cup FreeKeys : GetItem(k)
    \/ \E k \in FieldNames \cup FreeKeys :
           \E v \in (IF k \in FieldNames THEN RawVals(k) ELSE FreeVals) : SetItem(k, v)
    \/ \E k \in FieldNames \cup FreeKeys : DelItem(k)
    \/ ToPrimitive
    \/ \E S \in SUBSET (FieldNames \cup FreeKeys) : ToPrimitiveRaise(S)
    \/ \E in \in ToPythonInputs : \E par \in Parents : ToPython(in, par)
    \/ \E kw \in KwargSets : Construct(kw)

SpecSchema == Init /\ [][NextSchema]_vars

\* the document's fields application code writes between lifecycle calls
DocWrites == {<<"age", "s:1">>, <<"when", "d:9">>}

\* the stored documents application code loads
DocInputs == {in \in ToPythonInputs : in.null \/ DOMAIN in.map \subseteq {IdField, "age"}}

NextDoc ==
    \/ \E n \in 1..MaxIndexers : RegisterIndex(n)
    \/ \E w \in DocWrites : WriteField(w[1], w[2])
    \/ \E in \in DocInputs : ToPython(in, None)
    \/ SaveStart
    \/ \E h \in HandlerEffects : PreSave(h)
    \/ SaveMaterialize
    \/ \E S \in SUBSET FieldNames : SaveMaterializeRaise(S)
    \/ \E o \in SaveOutcomes : BackendSave(o)
    \/ \E ok \in BOOLEAN : IndexSave(ok)
    \/ \E h \in HandlerEffects : PostSave(h)
    \/ DeleteStart
    \/ \E h \in HandlerEffects : PreDelete(h)
    \/ \E ok \in BOOLEAN : BackendDelete(ok)
    \/ \E ok \in BOOLEAN : IndexDelete(ok)
    \/ \E h \in HandlerEffects : PostDelete(h)

SpecDoc == Init /\ [][NextDoc]_vars

NextTypes ==
    \/ \E d \in Declarations : \E bases \in BaseChoices(types, d.doc) : Declare(d, bases)
    \/ \E t \in 1..Len(types) : ReRegister(t)

SpecTypes == Init /\ [][NextTypes]_vars

NextFields ==
    \E d \in FieldDeclarations : \E bases \in BaseChoices(types, FALSE) :
        DeclareFields(d, bases)

SpecFields == Init /\ [][NextFields]_vars

NextMeta ==
    \E d \in MetaDeclarations : \E bases \in BaseChoices(types, d.doc) :
        DeclareMeta(d, bases)

SpecMeta == Init /\ [][NextMeta]_vars

NextBackend ==
    \/ \E cls \in Backends : \E n \in IndexerNames : \E T \in IndexerTypes :
           RegisterIndexer(cls, n, T)
    \/ \E cls \in Backends : \E n \in IndexerNames : GetIndexer(cls, n)

SpecBackend == Init /\ [][NextBackend]_vars


(***************************************************************************)
(* Properties of the save / delete lifecycle (SpecDoc)                     *)
(***************************************************************************)
\* the application's last call was op and has returned without an error
Returned(op) == pc = "idle" /\ lastOp = <<op, "">> /\ raised = ""

\* trace[from + 1 ..] are n indexer notifications call, in registration order
IndexersNotified(call, from, n) ==
    \A i \in 1..n :
        trace[from + i] = Ev(call, indexes[i], "", EmptyDict, None, FALSE)

\* data is what materializing the instance gives: every key of
\* _python_data converted, every other key as _primitive_data holds it
\* (the id aside, which the backend and the receivers may write later)
IsMaterialized(data) ==
    /\ \A k \in DOMAIN typedData : k \in DOMAIN data /\ data[k] = PrimitiveEntry(typedData, k)
    /\ \A k \in DOMAIN data \ {IdField} : k \in DOMAIN primitiveData /\ data[k] = primitiveData[k]
    /\ DOMAIN primitiveData \ {IdField} \subseteq DOMAIN data

\* C1: a save() that returns has made exactly the calls pre-save,
\* backend.save(collection, materialized data), on_document_save of every
\* registered indexer once and in registration order, post-save.
C1_SaveCallSequence ==
    Returned("save") =>
        /\ Len(trace) = Len(indexes) + 3
        /\ trace[1] = Signal("pre_save")
        /\ trace[2].call = "backend.save"
        /\ trace[2].coll = Collection
        /\ IsMaterialized(trace[2].data)
        /\ IndexersNotified("on_document_save", 2, Len(indexes))
        /\ trace[Len(trace)].call = "post_save"

C1_Witness ==
    /\ Returned("save")
    /\ indexes = <<2, 1>>
    /\ "age" \in DOMAIN typedData
    /\ trace[2].data["age"] = "i:1"

\* C2: when the backend call of save() or delete() fails, the method ends
\* with the backend's error, and its calls are the pre-notification and the
\* backend call only: no indexer is notified, no post-notification fires.
C2_BackendFailureAborts ==
    raised = "BackendError" =>
        /\ pc = "idle"
        /\ Len(trace) = 2
        /\ \/ /\ lastOp = <<"save", "">>
              /\ trace[1] = Signal("pre_save")
              /\ trace[2].call = "backend.save"
           \/ /\ lastOp = <<"delete", "">>
              /\ trace[1] = Signal("pre_delete")
              /\ trace[2].call = "backend.delete"

C2_Witness ==
    /\ raised = "BackendError"
    /\ lastOp = <<"save", "">>
    /\ Len(indexes) = 2

\* C3: when the k-th indexer fails in save() or delete(), the method ends
\* with its error after the pre-notification, the backend call and the
\* notifications of indexers 1..k: no later indexer is notified, no
\* post-notification fires, and what the backend call did stands (the
\* document saved is still stored, the document deleted is still gone).
C3_IndexerFailureAborts ==
    raised = "IndexerError" =>
        LET k == Len(trace) - 2 IN
        /\ pc = "idle"
        /\ k \in 1..Len(indexes)
        /\ \/ /\ lastOp = <<"save", "">>
              /\ trace[1] = Signal("pre_save")
              /\ trace[2].call = "backend.save"
              /\ IndexersNotified("on_document_save", 2, k)
              /\ stored.present
              /\ stored.data = primitiveData
           \/ /\ lastOp = <<"delete", "">>
              /\ trace[1] = Signal("pre_delete")
              /\ trace[2].call = "backend.delete"
              /\ IndexersNotified("on_document_delete", 2, k)
              /\ ~stored.present

C3_Witness ==
    /\ raised = "IndexerError"
    /\ lastOp = <<"save", "">>
    /\ Len(indexes) = 2
    /\ Len(trace) = 3

\* C4: the created flag of post-save is true exactly when get_id() gave
\* None as save() began, whatever a receiver or the backend assigns later
\* and whatever the value of an id that resolved.
C4_CreatedIffUnresolved ==
    \A i \in 1..Len(trace) :
        trace[i].call = "post_save" =>
            (trace[i].created <=> idAtStart = None)

\* C5: a delete() that returns has made exactly the calls pre-delete,
\* backend.delete(collection, id), on_document_delete of every registered
\* indexer in registration order, post-delete; the id is the one
\* _primitive_data resolves to when the backend is called, after the
\* pre-delete receivers have run.
C5_DeleteCallSequence ==
    /\ pc = "index_delete" =>
           /\ Len(trace) = idx + 1
           /\ trace[1] = Signal("pre_delete")
           /\ trace[2] = Ev("backend.delete", 0, Collection, EmptyDict,
                            GetId(primitiveData), FALSE)
           /\ IndexersNotified("on_document_delete", 2, idx - 1)
    /\ Returned("delete") =>
           /\ Len(trace) = Len(indexes) + 3
           /\ trace[1] = Signal("pre_delete")
           /\ trace[2].call = "backend.delete"
           /\ trace[2].coll = Collection
           /\ IndexersNotified("on_document_delete", 2, Len(indexes))
           /\ trace[Len(trace)] = Signal("post_delete")

C5_Witness ==
    /\ Returned("delete")
    /\ indexes = <<2, 1>>
    /\ trace[2].id = HandlerId

(***************************************************************************)
(* Properties of the two representations (SpecSchema)                      *)
(***************************************************************************)
\* the step is a read of declared field f, by attribute or by item
IsRead(f) == lastOp' \in {<<"getattr", f>>, <<"getitem", f>>}

\* the step is a write of declared field f, by attribute or by item
IsWrite(f) == lastOp' \in {<<"setattr", f>>, <<"setitem", f>>}

\* the value __setattr__ stores for v, from the descriptor's contract
Coerced(f, v) == IF FieldIsInstance(f, v) THEN v ELSE FieldToPython(f, v)

\* C6: between two writes of a declared field f, reads convert lazily
\* once: the first read calls to_python on _primitive_data.get(f) and
\* caches the result, every later read returns the cached value and
\* converts nothing, and a read after a write converts nothing and returns
\* the value the write stored.
C6_LazyOnce ==
    \A f \in FieldNames :
        /\ lazyCount[f] <= 1
        /\ lazyCount[f] = 1 => f \in DOMAIN typedData
        /\ written[f] # NoWrite => lazyCount[f] = 0

C6_ReadStep ==
    \A f \in FieldNames :
        IsRead(f) =>
            /\ ret' = typedData'[f]
            /\ f \in DOMAIN typedData =>
                   /\ typedData' = typedData
                   /\ ret' = typedData[f]
                   /\ lazyCount' = lazyCount
            /\ f \notin DOMAIN typedData =>
                   /\ lazyCount'[f] = 1
                   /\ lazyArg'[f] = Get(primitiveData, f)
                   /\ ret' = FieldToPython(f, Get(primitiveData, f))
            /\ written[f] # NoWrite =>
                   /\ lazyCount' = lazyCount
                   /\ ret' = Coerced(f, written[f])

C6_LazyConversionMemoized == [](C6_LazyOnce) /\ [][C6_ReadStep]_vars

C6_Witness ==
    /\ lastOp = <<"getattr", "age">>
    /\ lazyCount["age"] = 1
    /\ lazyArg["age"] = "s:1"
    /\ ret = "i:1"
    /\ primitiveData["age"] = "s:1"

\* C7: once f = v has been written and the instance materialized,
\* _primitive_data[f] is to_primitive of v (of to_python(v) when v is not an
\* instance), whatever it held and whether or not f had been read; the
\* write itself leaves _primitive_data as it was.
C7_Materialized ==
    (lastOp = <<"to_primitive", "">> /\ raised = "") =>
        \A f \in FieldNames :
            written[f] # NoWrite =>
                /\ f \in DOMAIN primitiveData
                /\ primitiveData[f] = FieldToPrimitive(f, Coerced(f, written[f]))

C7_WriteStep ==
    \A f \in FieldNames : IsWrite(f) => primitiveData' = primitiveData

C7_WriteThenMaterialize == [](C7_Materialized) /\ [][C7_WriteStep]_vars

C7_Witness ==
    /\ lastOp = <<"to_primitive", "">>
    /\ raised = ""
    /\ written["age"] = "s:1"
    /\ written["when"] = "iso:1"
    /\ primitiveData["age"] = "i:1"
    /\ primitiveData["when"] = "iso:1"

\* C8: the instance to_python builds from a mapping p has an empty
\* _python_data, and materializing it before any key is read or written
\* converts nothing and gives a mapping equal to p; None counts as the
\* empty mapping.
C8_RoundTrip ==
    source.given =>
        /\ lastOp \in {<<"to_python", "">>, <<"to_primitive", "">>}
        /\ raised = ""
        /\ typedData = EmptyDict
        /\ \A f \in FieldNames : lazyCount[f] = 0
        /\ primitiveData = (IF source.null THEN EmptyDict ELSE source.map)

C8_Witness ==
    /\ source.given
    /\ lastOp = <<"to_primitive", "">>
    /\ primitiveData = [k \in {"age"} |-> "s:1"]

(***************************************************************************)
(* Properties of type construction (SpecTypes)                             *)
(***************************************************************************)
\* the declaration that has just run built its Options (neither the proxy
\* test nor class Meta validation raised)
Built == decl.op = "declare" /\ decl.built

\* the catalog maps each schema key to at most one type
CatalogFunctional == \A p, q \in catalog : p[1] = q[1] => p[2] = q[2]

\* a step constructing a non-virtual type whose schema key is taken ends in
\* a registration error and leaves the catalog and the types as they were
C9_DeclareStep ==
    (/\ decl'.op = "declare"
     /\ decl'.built
     /\ ~decl'.opts["virtual"]
     /\ \E p \in catalog : p[1] = decl'.opts["schema_key"] /\ p[2] # decl'.type)
        => /\ decl'.result = "RegistrationError"
           /\ UNCHANGED <<catalog, types, prepared, backendDocs>>

\* a step registering a type again under the key it is registered under
\* succeeds and changes nothing
C9_ReRegisterStep ==
    (/\ decl'.op = "register_schema"
     /\ <<decl'.opts["schema_key"], decl'.type>> \in catalog)
        => /\ decl'.result = "ok"
           /\ UNCHANGED <<catalog, types, prepared, backendDocs>>

\* C9: after any sequence of type declarations the catalog maps each schema
\* key to at most one type; constructing a non-virtual type whose schema key
\* already maps to a different type fails with a registration error; and
\* registering the same type again under the same key is a no-op.
C9_SchemaKeyCollision ==
    /\ []CatalogFunctional
    /\ [][C9_DeclareStep /\ C9_ReRegisterStep]_vars

\* a second type was declared with the explicit schema key of a registered
\* one and the declaration ended in a registration error
C9_Witness ==
    /\ Built
    /\ decl.result = "RegistrationError"
    /\ MetaGet(decl.meta, "schema_key", None) = "shared"
    /\ \E p \in catalog : p[1] = "shared" /\ p[2] < decl.type

\* C10: a proxy type declared with no fields of its own on one ancestor is
\* built with the ancestor's fields, and every recognized option its class
\* Meta does not set has, in its Options, the value the ancestor's Options
\* has (and is absent where the ancestor's has none).
C10_ProxyInheritsStructure ==
    (Built /\ MetaGet(decl.meta, "proxy", FALSE) /\ decl.bases # <<>>) =>
        LET anc == types[decl.bases[1]] IN
        /\ (decl.declared = <<>> /\ Len(decl.bases) = 1) => decl.fields = anc.fields
        /\ \A k \in DEFAULT_NAMES \ DOMAIN decl.meta.attrs :
               IF k \in DOMAIN anc.opts
               THEN k \in DOMAIN decl.opts /\ decl.opts[k] = anc.opts[k]
               ELSE k \notin DOMAIN decl.opts

\* a proxy without fields or schema key of its own was constructed on an
\* ancestor that has fields and a collection of its own
C10_Witness ==
    /\ Built
    /\ decl.result = "ok"
    /\ decl.meta = MetaProxy
    /\ decl.declared = <<>>
    /\ Len(decl.bases) = 1
    /\ types[decl.bases[1]].fields # <<>>
    /\ decl.fields = types[decl.bases[1]].fields
    /\ decl.opts["schema_key"] = types[decl.bases[1]].opts["schema_key"]
    /\ types[decl.type].opts = decl.opts

(***************************************************************************)
(* Properties of the field merge (SpecFields)                              *)
(***************************************************************************)
\* the names of a field table, in its order
Names(fields) == [i \in 1..Len(fields) |-> fields[i].name]

NameSet(fields) == {fields[i].name : i \in 1..Len(fields)}

\* the field table is in ascending order of creation_counter
Ascending(fields) ==
    \A i, j \in 1..Len(fields) : i < j => fields[i].counter < fields[j].counter

\* the names the bases of the declaration supply
InheritedNames == UNION {NameSet(types[decl.bases[i]].fields) : i \in 1..Len(decl.bases)}

\* the last of the declaration's bases that supplies the name n
LastBaseWith(n) ==
    types[decl.bases[CHOOSE i \in 1..Len(decl.bases) :
              /\ n \in NameSet(types[decl.bases[i]].fields)
              /\ \A j \in (i + 1)..Len(decl.bases) :
                     n \notin NameSet(types[decl.bases[j]].fields)]]

\* C11: the field table a declaration builds holds the names of its bases
\* and its own, in ascending order of creation_counter; a, b, c on a base
\* and d on the subtype give [a, b, c, d]; a declaration with the bases and
\* fields of an existing type gets that type's order; and a name two bases
\* supply has the later base's descriptor.
C11_FieldOrderStable ==
    Built =>
        /\ Ascending(decl.fields)
        /\ NameSet(decl.fields) =
               InheritedNames \cup {decl.declared[i] : i \in 1..Len(decl.declared)}
        /\ (/\ Len(decl.bases) = 1
            /\ Names(types[decl.bases[1]].fields) = <<"a", "b", "c">>
            /\ decl.declared = <<"d">>) => Names(decl.fields) = <<"a", "b", "c", "d">>
        /\ \A t \in DOMAIN types :
               (types[t].bases = decl.bases /\ types[t].declared = decl.declared)
                   => Names(types[t].fields) = Names(decl.fields)
        /\ \A n \in InheritedNames :
               FieldCounter(decl.fields, n) = FieldCounter(LastBaseWith(n).fields, n)

\* d was declared on a subtype of a base with a, b, c for the second time,
\* and both declarations were constructed with the order [a, b, c, d]
C11_Witness ==
    /\ Built
    /\ decl.result = "ok"
    /\ Len(decl.bases) = 1
    /\ Names(types[decl.bases[1]].fields) = <<"a", "b", "c">>
    /\ decl.declared = <<"d">>
    /\ Names(decl.fields) = <<"a", "b", "c", "d">>
    /\ \E t \in DOMAIN types :
           /\ t # decl.type
           /\ types[t].bases = decl.bases
           /\ types[t].declared = decl.declared
           /\ Names(types[t].fields) = <<"a", "b", "c", "d">>

(***************************************************************************)
(* Properties of the Options a declaration builds (SpecTypes)              *)
(***************************************************************************)
\* the declaration built its Options from its own class Meta alone
BuiltPlain == Built /\ ~MetaGet(decl.meta, "proxy", FALSE)

\* a class Meta without schema_key gives "<app_label>.<lowercased name>"
C12_DefaultSchemaKey ==
    (BuiltPlain /\ "schema_key" \notin DOMAIN decl.meta.attrs) =>
        decl.opts["schema_key"] = decl.opts["app_label"] \o "." \o Lower(decl.name)

\* a class Meta without collection gives the Options' schema_key
C12_CollectionIsSchemaKey ==
    (BuiltPlain /\ "collection" \notin DOMAIN decl.meta.attrs) =>
        decl.opts["collection"] = decl.opts["schema_key"]

\* C12: when the declaration sets no schema key, the schema key is
\* "<namespace>.<lowercased type name>"; when it sets no collection, the
\* collection equals the schema key, also when the schema key was set.
C12_OptionDefaults == C12_DefaultSchemaKey /\ C12_CollectionIsSchemaKey

(***************************************************************************)
(* Properties of the named indexers (SpecBackend)                          *)
(***************************************************************************)
\* C13: get_indexer(n) on a storage class gives what was last registered
\* under n through that class, and fails when nothing was: a registration
\* through another class neither adds nor replaces it.
C13_IndexersPerBackend ==
    \A cls \in Backends : \A n \in IndexerNames :
        GetIndexerResult(indexers, cls, n) = regBy[cls][n]

\* C14: register_indexer(n, T) with n registered to T changes nothing, and
\* register_indexer(n, T2) with n registered to another T1 is an error that
\* leaves n registered to T1.
C14_RegistrationConflict ==
    (regOp.op = "register_indexer" /\ regOp.prev # "KeyError") =>
        IF regOp.prev = regOp.type
        THEN regOp.result = None
                 /\ GetIndexerResult(indexers, regOp.cls, regOp.name) = regOp.prev
        ELSE regOp.result # None
                 /\ GetIndexerResult(indexers, regOp.cls, regOp.name) = regOp.prev

(***************************************************************************)
(* Properties of the registrations a declaration makes (SpecTypes)         *)
(***************************************************************************)
\* how often x occurs in the sequence q
Count(q, x) == Cardinality({i \in 1..Len(q) : q[i] = x})

\* every call c of the declaration comes before every call d of it
CallsBefore(c, d) ==
    \A i, j \in 1..Len(decl.calls) :
        (decl.calls[i] = c /\ decl.calls[j] = d) => i < j

\* a type is handed to register_document once when it is a document that
\* is neither virtual nor proxy, and never otherwise; class_prepared
\* announces every constructed type once
C15_RegisteredByFlag ==
    \A t \in DOMAIN types :
        /\ Count(backendDocs, t) =
               IF types[t].doc /\ ~types[t].opts["virtual"] /\ ~types[t].opts["proxy"]
               THEN 1 ELSE 0
        /\ Count(prepared, t) = 1

\* the calls of a declaration that built its Options: register_schema
\* unless virtual, then class_prepared, then register_document for a
\* document neither virtual nor proxy; nothing after a registration error
C15_CallOrder ==
    Built =>
        /\ Count(decl.calls, "register_schema") = IF decl.opts["virtual"] THEN 0 ELSE 1
        /\ CallsBefore("register_schema", "class_prepared")
        /\ CallsBefore("class_prepared", "register_document")
        /\ IF decl.result = "ok"
           THEN /\ Count(decl.calls, "class_prepared") = 1
                /\ Count(decl.calls, "register_document") = Count(backendDocs, decl.type)
           ELSE /\ decl.calls = <<"register_schema">>
                /\ Count(prepared, decl.type) = 0
                /\ Count(backendDocs, decl.type) = 0

\* a step declaring a virtual type leaves the catalog as it was
C15_VirtualStep ==
    (decl'.op = "declare" /\ decl'.built /\ decl'.opts["virtual"]) => catalog' = catalog

\* C15: a virtual type is never added to the schema catalog; a document
\* type is passed to register_document exactly once if it is neither
\* virtual nor proxy and never otherwise; class_prepared fires after the
\* catalog registration and before register_document; and when the catalog
\* registration fails neither of the two happens.
C15_RegistrationByFlagAndOrder ==
    /\ [](C15_RegisteredByFlag /\ C15_CallOrder)
    /\ [][C15_VirtualStep]_vars

\* a document neither virtual nor proxy was constructed with the three
\* calls in order, after a proxy document that the backend was not given
C15_Witness ==
    /\ Built
    /\ decl.result = "ok"
    /\ decl.doc
    /\ decl.calls = <<"register_schema", "class_prepared", "register_document">>
    /\ Count(backendDocs, decl.type) = 1
    /\ \E t \in DOMAIN types :
           /\ types[t].doc
           /\ types[t].opts["proxy"]
           /\ ~types[t].opts["virtual"]
           /\ Count(backendDocs, t) = 0
           /\ <<types[t].opts["schema_key"], t>> \in catalog

(***************************************************************************)
(* Properties of class Meta validation (SpecMeta)                          *)
(***************************************************************************)
\* the declaration got as far as Options.contribute_to_class
Validated == decl.op = "declare" /\ ~(MetaGet(decl.meta, "proxy", FALSE) /\ decl.bases = <<>>)

\* the declaration left no type: none in the catalog, none announced
NothingConstructed ==
    /\ decl.type \notin DOMAIN types
    /\ \A p \in catalog : p[2] # decl.type
    /\ Count(prepared, decl.type) = 0
    /\ Count(backendDocs, decl.type) = 0
    /\ decl.calls = <<>>

\* C16 as stated: a class Meta with any attribute outside the eight
\* recognized names fails with a TypeError naming those attributes, and the
\* type is neither in the catalog nor announced.
C16_UnrecognizedOptionFails ==
    (Validated /\ DOMAIN decl.meta.attrs \ DEFAULT_NAMES # {}) =>
        /\ decl.result = "TypeError"
        /\ decl.invalid = DOMAIN decl.meta.attrs \ DEFAULT_NAMES
        /\ NothingConstructed

\* the attributes class Meta validation takes exception to
Offending(meta) ==
    {a \in DOMAIN meta.attrs : ~IsPrivate(a)} \ (DEFAULT_NAMES \cup {"verbose_name_plural"})

\* C16, amended: a class Meta with an attribute that is neither private
\* (underscore first), nor one of the eight recognized names, nor
\* verbose_name_plural fails with a TypeError naming exactly those
\* attributes, and the type is neither in the catalog nor announced; a
\* class Meta without such an attribute raises no TypeError.
C16_InvalidOptionFails ==
    Validated =>
        IF Offending(decl.meta) # {}
        THEN /\ decl.result = "TypeError"
             /\ decl.invalid = Offending(decl.meta)
             /\ NothingConstructed
        ELSE decl.result # "TypeError"

\* a class Meta with two unknown attributes and a schema key ended in a
\* TypeError naming the two, with nothing under its key in the catalog
C16_Witness ==
    /\ Validated
    /\ decl.meta = MetaBogusKeyed
    /\ decl.result = "TypeError"
    /\ decl.invalid = {"bogus", "extra"}
    /\ \A p \in catalog : p[1] # "shared"
    /\ NothingConstructed

(***************************************************************************)
(* Properties of item deletion (SpecSchema)                                *)
(***************************************************************************)
\* the mappings m and n agree on every key but k
SameBut(m, n, k) ==
    /\ DOMAIN m \ {k} = DOMAIN n \ {k}
    /\ \A j \in DOMAIN m \ {k} : m[j] = n[j]

\* a step that is del self[k]
C17_DelItemStep ==
    \A k \in FieldNames \cup FreeKeys :
        (lastOp' = <<"delitem", k>>) =>
            IF k \in FieldNames
            THEN /\ k \in DOMAIN typedData'
                 /\ typedData'[k] = Coerced(k, None)
                 /\ SameBut(typedData, typedData', k)
                 /\ primitiveData' = primitiveData
                 /\ k \in Keys(primitiveData')
            ELSE /\ k \notin DOMAIN typedData'
                 /\ k \notin DOMAIN primitiveData'
                 /\ SameBut(typedData, typedData', k)
                 /\ SameBut(primitiveData, primitiveData', k)

\* C17: deleting a declared field f writes the descriptor's null-equivalent
\* into typedData[f], keeps f among the keys and leaves primitiveData as it
\* was; deleting a non-declared key removes it from typedData and from
\* primitiveData; every other key of both mappings is unchanged.
C17_ItemDeletion == [][C17_DelItemStep]_vars

\* a declared field holding a primitive was deleted: its typed entry is the
\* null-equivalent and the primitive is still there
C17_Witness ==
    /\ lastOp = <<"delitem", "age">>
    /\ "age" \in DOMAIN typedData
    /\ typedData["age"] = "i:0"
    /\ "age" \in DOMAIN primitiveData
    /\ primitiveData["age"] = "i:1"

(***************************************************************************)
(* Further properties of the save lifecycle (SpecDoc)                      *)
(***************************************************************************)
\* C18: when a descriptor fails while save() materializes the instance,
\* save() ends with that error and pre-save is the only call it has made:
\* backend.save is not invoked, no indexer is notified, post-save does not
\* fire.
C18_ConversionFailureAborts ==
    (raised = "FieldError" /\ lastOp = <<"save", "">>) =>
        /\ pc = "idle"
        /\ trace = <<Signal("pre_save")>>

\* a save of a document with two indexers ended with a descriptor's error
C18_Witness ==
    /\ raised = "FieldError"
    /\ lastOp = <<"save", "">>
    /\ pc = "idle"
    /\ Len(indexes) = 2
    /\ RaisingKeys(typedData) # {}

\* the step is a call of a signal receiver or of the backend's save, which
\* are handed the instance and may write its _primitive_data
CollaboratorStep ==
    /\ Len(trace') = Len(trace) + 1
    /\ trace'[Len(trace')].call \in
           {"pre_save", "post_save", "pre_delete", "post_delete", "backend.save"}

\* the step builds another instance
LoadStep == lastOp'[1] \in {"to_python", "__init__"}

\* every other step leaves the id that _primitive_data resolves to
C19_IdStep ==
    ~(CollaboratorStep \/ LoadStep) =>
        Get(primitiveData', IdField) = Get(primitiveData, IdField)

\* when save() begins, the id it tests is the one the current
\* _primitive_data resolves to, and without one created is true
C19_IdAtSaveStart ==
    pc = "pre_save" =>
        /\ idAtStart = Get(primitiveData, IdField)
        /\ Get(primitiveData, IdField) = None => created

\* backend.save was handed the instance's own _primitive_data: what the
\* backend holds is what the instance holds, the backend's id included
C19_OwnData ==
    (pc = "index_save" /\ idx = 1) =>
        /\ stored.present
        /\ stored.data = primitiveData
        /\ trace[Len(trace)].call = "backend.save"
        /\ \A k \in DOMAIN primitiveData \ {IdField} :
               k \in DOMAIN trace[Len(trace)].data
                   /\ trace[Len(trace)].data[k] = primitiveData[k]

\* C19: the id is, at every moment, what the backend's get_id gives for
\* the current _primitive_data: no step of the core writes it, save() tests
\* the id the data resolves to when it begins (created is true when there
\* is none), and backend.save is handed the instance's own data, so a
\* document the backend gave no id has none after the save and its next
\* save reports created = true again.
C19_IdentityNotCached ==
    /\ [](C19_IdAtSaveStart /\ C19_OwnData)
    /\ [][C19_IdStep]_vars

\* a document that was written and stored without an id is being saved
\* again, with created = true
C19_Witness ==
    /\ pc = "pre_save"
    /\ created
    /\ idAtStart = None
    /\ stored.present
    /\ stored.data = primitiveData
    /\ IdField \notin DOMAIN stored.data
    /\ "age" \in DOMAIN typedData

(***************************************************************************)
(* Further properties of the field merge (SpecFields)                      *)
(***************************************************************************)
\* the names the bases of the declaration d supply, among the types tps
NamesOfBases(d, tps) == UNION {NameSet(tps[d.bases[i]].fields) : i \in 1..Len(d.bases)}

\* the descriptor under the name n of the last base of d that supplies n
InheritedCounter(d, tps, n) ==
    FieldCounter(tps[d.bases[CHOOSE i \in 1..Len(d.bases) :
                         /\ n \in NameSet(tps[d.bases[i]].fields)
                         /\ \A j \in (i + 1)..Len(d.bases) :
                                n \notin NameSet(tps[d.bases[j]].fields)]].fields, n)

\* a step building the fields of a declaration: the descriptor its class
\* body creates i-th has the counter nextCounter + i - 1
C20_DeclareStep ==
    (decl'.op = "declare" /\ decl'.built) =>
        \A i \in 1..Len(decl'.declared) :
            LET n == decl'.declared[i]
                own == nextCounter + i - 1
            IN  IF n \in NamesOfBases(decl', types')
                THEN /\ FieldCounter(decl'.fields, n) = InheritedCounter(decl', types', n)
                     /\ \A j \in 1..Len(decl'.fields) : decl'.fields[j].counter # own
                ELSE FieldCounter(decl'.fields, n) = own

\* C20: when a type declares a field under a name a base's field table
\* holds, its field table has the base's descriptor under that name and
\* the descriptor declared on the type is in it nowhere; a name no base
\* holds has the declared descriptor.
C20_BaseReplacesDeclared == [][C20_DeclareStep]_vars

\* b and c were declared on a subtype of a base with a, b, c, and the
\* subtype was constructed with the field table of the base
C20_Witness ==
    /\ Built
    /\ decl.result = "ok"
    /\ decl.declared = <<"b", "c">>
    /\ Len(decl.bases) = 1
    /\ Names(types[decl.bases[1]].fields) = <<"a", "b", "c">>
    /\ decl.fields = types[decl.bases[1]].fields
    /\ nextCounter > decl.fields[3].counter + 2

====
